---- MODULE Spec2Model ----
(***************************************************************************)
(* Model of the schema resolver of the playground                          *)
(* (betterTypes/transformers/schemaExtractors.ts): extractSchema,          *)
(* extractFromAnyOf, combineSchemas and createPrimitiveSchema.             *)
(*                                                                         *)
(* The resolver is a pure function of a JSON schema node.  A JavaScript    *)
(* value is modelled as a record [t |-> tag, v |-> payload]; an object's   *)
(* payload is the function from its own keys to their values, so that      *)
(* `"k" in o` is k \in DOMAIN o.v and the spread {...a, ...b} is a         *)
(* function override.  A scalar's payload is its literal text.             *)
(***************************************************************************)
EXTENDS Integers, Sequences, FiniteSets, TLC

VARIABLES fn, parentMetadata, schema, outcome

vars == <<fn, parentMetadata, schema, outcome>>

(***************************************************************************)
(* Bounds of the input space.                                              *)
(***************************************************************************)
\* longest anyOf list of an input union
MaxAlts == 2
\* longest enum list of an alternative
MaxEnum == 2
\* longest choices list (and longest list of a choices group)
MaxChoices == 1

(***************************************************************************)
(* JavaScript values.                                                      *)
(***************************************************************************)
Undefined == [t |-> "undefined", v |-> ""]
Null == [t |-> "null", v |-> ""]
Str(s) == [t |-> "str", v |-> s]
Num(s) == [t |-> "num", v |-> s]
Bool(s) == [t |-> "bool", v |-> s]
List(q) == [t |-> "list", v |-> q]
Obj(f) == [t |-> "obj", v |-> f]

EmptyObj == Obj([k \in {} |-> Undefined])

\* o.k : the value of a property, undefined when o has no such key
Get(o, k) == IF k \in DOMAIN o.v THEN o.v[k] ELSE Undefined

\* "k" in o
In(k, o) == k \in DOMAIN o.v

\* ToBoolean: undefined, null, false, 0 and "" are falsy; objects and arrays
\* (empty ones too) are truthy
Truthy(x) ==
    ~ \/ x.t \in {"undefined", "null"}
      \/ x.t = "bool" /\ x.v = "false"
      \/ x.t = "num" /\ x.v = "0"
      \/ x.t = "str" /\ x.v = ""

\* a || b
JsOr(a, b) == IF Truthy(a) THEN a ELSE b

\* a && b
JsAnd(a, b) == IF Truthy(a) THEN b ELSE a

\* a ?? b
JsCoalesce(a, b) == IF a.t \in {"undefined", "null"} THEN b ELSE a

\* String(x) of a scalar
JsString(x) ==
    CASE x.t = "str" -> x
      [] x.t \in {"num", "bool"} -> Str(x.v)
      [] x.t = "null" -> Str("null")
      [] x.t = "undefined" -> Str("undefined")
      [] OTHER -> Str("[object Object]")

\* {...a, ...b}
Spread(a, b) ==
    Obj([k \in DOMAIN a.v \cup DOMAIN b.v |->
            IF k \in DOMAIN b.v THEN b.v[k] ELSE a.v[k]])

\* a function's completion
Return(x) == [t |-> "return", v |-> x]
Throw(msg) == [t |-> "throw", v |-> msg]
Pending == [t |-> "pending", v |-> ""]

(***************************************************************************)
(* utilities/schema: the classifier.                                       *)
(***************************************************************************)
PrimitiveTypes == {"string", "number", "boolean", "integer"}

hasType(s) == In("type", s)

isPrimitive(s) == hasType(s) /\ Get(s, "type").t = "str" /\ Get(s, "type").v \in PrimitiveTypes

isArray(s) == hasType(s) /\ Get(s, "type") = Str("array")

isObject(s) == hasType(s) /\ Get(s, "type") = Str("object")

\* isSchema[kind](s)
isSchema(kind, s) ==
    CASE kind = "primitive" -> isPrimitive(s)
      [] kind = "array" -> isArray(s)
      [] kind = "object" -> isObject(s)

\* q.find(isSchema[kind]): the first element that passes, else undefined
Find(q, kind) ==
    IF \E i \in 1..Len(q) : isSchema(kind, q[i])
    THEN q[CHOOSE i \in 1..Len(q) :
                isSchema(kind, q[i]) /\ \A j \in 1..(i - 1) : ~isSchema(kind, q[j])]
    ELSE Undefined

(***************************************************************************)
(* createPrimitiveSchema                                                   *)
(***************************************************************************)
Choices(pm, sel) ==
    JsOr(JsOr(IF In("choices", sel) THEN Get(sel, "choices") ELSE Bool("false"),
              IF In("choices", pm) THEN Get(pm, "choices") ELSE Bool("false")),
         Undefined)

\* ChoiceEntry without the String() conversions
ChoiceEntry_Raw(c) == Obj([label |-> Get(c, "label"), value |-> Get(c, "value")])

ChoiceEntry(c) == Obj([label |-> JsString(Get(c, "label")), value |-> JsString(Get(c, "value"))])

ChoiceGroup(g) == List([i \in 1..Len(g.v) |-> JsString(g.v[i])])

ProcessedChoices(choices) ==
    JsAnd(choices,
          IF choices.t = "list"
          THEN List([i \in 1..Len(choices.v) |-> ChoiceEntry(choices.v[i])])
          ELSE Obj([k \in DOMAIN choices.v |-> ChoiceGroup(choices.v[k])]))

\* MergedTitle with ?? in place of ||
MergedTitle_Coalesce(pm, sel) == JsCoalesce(Get(sel, "title"), Get(pm, "title"))

MergedTitle(pm, sel) == JsOr(Get(sel, "title"), Get(pm, "title"))

MergedDescription(pm, sel) == JsOr(Get(sel, "description"), Get(pm, "description"))

\* MergedDefault with || in place of ??
MergedDefault_Or(pm, sel) == JsOr(Get(sel, "default"), Get(pm, "default"))

MergedDefault(pm, sel) == JsCoalesce(Get(sel, "default"), Get(pm, "default"))

createPrimitiveSchema(pm, sel, schemaType) ==
    Spread(Spread(pm, sel),
           Obj([type |-> schemaType,
                title |-> MergedTitle(pm, sel),
                description |-> MergedDescription(pm, sel),
                default |-> MergedDefault(pm, sel),
                enum |-> Get(sel, "enum"),
                choices |-> ProcessedChoices(Choices(pm, sel))]))

(***************************************************************************)
(* combineSchemas                                                          *)
(***************************************************************************)
\* StructuralSchema with the spreads in the opposite order
StructuralSchema_ParentLast(pm, sel, schemaType) ==
    Spread(Spread(sel, pm),
           Obj([type |-> schemaType,
                title |-> MergedTitle(pm, sel),
                description |-> MergedDescription(pm, sel),
                default |-> MergedDefault(pm, sel)]))

StructuralSchema(pm, sel, schemaType) ==
    Spread(Spread(pm, sel),
           Obj([type |-> schemaType,
                title |-> MergedTitle(pm, sel),
                description |-> MergedDescription(pm, sel),
                default |-> MergedDefault(pm, sel)]))

combineSchemas(pm, sel) ==
    IF In("type", sel)
    THEN CASE Get(sel, "type") = Str("array") -> Return(StructuralSchema(pm, sel, Str("array")))
           [] Get(sel, "type") = Str("object") -> Return(StructuralSchema(pm, sel, Str("object")))
           [] OTHER -> Return(createPrimitiveSchema(pm, sel, Get(sel, "type")))
    ELSE IF In("anyOf", sel)
         THEN Return(Spread(pm, sel))
         ELSE Throw("Invalid schema type")

(***************************************************************************)
(* extractFromAnyOf                                                        *)
(***************************************************************************)
IsNonNull(s) == hasType(s) /\ Get(s, "type") # Str("null")

IsNull(s) == hasType(s) /\ Get(s, "type") = Str("null")

\* NonNullSchemas without the test for the null marker
NonNullSchemas_Typed(anyOfSchema) == SelectSeq(Get(anyOfSchema, "anyOf").v, hasType)

NonNullSchemas(anyOfSchema) == SelectSeq(Get(anyOfSchema, "anyOf").v, IsNonNull)

\* IsNullable taken from the number of alternatives filtered out
IsNullable_ByCount(anyOfSchema) ==
    Len(SelectSeq(Get(anyOfSchema, "anyOf").v, IsNonNull)) < Len(Get(anyOfSchema, "anyOf").v)

IsNullable(anyOfSchema) ==
    \E i \in 1..Len(Get(anyOfSchema, "anyOf").v) : IsNull(Get(anyOfSchema, "anyOf").v[i])

\* SelectedSchema without the precedence: the first non-null alternative
SelectedSchema_ListOrder(nonNullSchemas) == nonNullSchemas[1]

SelectedSchema(nonNullSchemas) ==
    JsOr(JsOr(JsOr(Find(nonNullSchemas, "primitive"),
                   Find(nonNullSchemas, "array")),
              Find(nonNullSchemas, "object")),
         nonNullSchemas[1])

TypedSelectedSchema(sel) == Spread(sel, Obj([enum |-> Get(sel, "enum")]))

\* ParentMetadata without the destructuring that drops anyOf
ParentMetadata_Whole(anyOfSchema) == anyOfSchema

ParentMetadata(anyOfSchema) ==
    Obj([k \in DOMAIN anyOfSchema.v \ {"anyOf"} |-> anyOfSchema.v[k]])

extractFromAnyOf(anyOfSchema) ==
    LET nonNullSchemas == NonNullSchemas(anyOfSchema)
        isNullable == IsNullable(anyOfSchema)
    IN  IF Len(nonNullSchemas) = 0
        THEN Throw("No valid non-null schema found in anyOf")
        ELSE LET combined == combineSchemas(ParentMetadata(anyOfSchema),
                                            TypedSelectedSchema(SelectedSchema(nonNullSchemas)))
             IN  IF combined.t = "throw"
                 THEN combined
                 ELSE Return([schema |-> combined.v, isNullable |-> isNullable])

(***************************************************************************)
(* extractSchema                                                           *)
(***************************************************************************)
isAnyOfSchema(s) == In("anyOf", s)

\* extractSchema that re-types the enum of a node it passes through
extractSchema_Typed(s) ==
    IF isAnyOfSchema(s)
    THEN extractFromAnyOf(s)
    ELSE Return([schema |-> TypedSelectedSchema(s), isNullable |-> FALSE])

extractSchema(s) ==
    IF isAnyOfSchema(s)
    THEN extractFromAnyOf(s)
    ELSE Return([schema |-> s, isNullable |-> FALSE])

(***************************************************************************)
(* Input space: schema nodes of the OpenAPI subset the resolver is fed.    *)
(***************************************************************************)
\* marks an optional key that a generated node does not carry
Absent == [t |-> "absent", v |-> ""]

\* the object that carries the keys of f whose value is not Absent
MkObj(f) == Obj([k \in {x \in DOMAIN f : f[x] # Absent} |-> f[k]])

\* the i-th element used to fill a generated list: 1, "a", true, null, 0, "", ...
Elem(i) ==
    CASE i % 6 = 1 -> Num("1")
      [] i % 6 = 2 -> Str("a")
      [] i % 6 = 3 -> Bool("true")
      [] i % 6 = 4 -> Null
      [] i % 6 = 5 -> Num("0")
      [] OTHER -> Str("")

ElemList(n) == List([i \in 1..n |-> Elem(i)])

EntryList(n) == List([i \in 1..n |-> Obj([label |-> Elem(i), value |-> Elem(i + 1)])])

Groups(n) == Obj([k \in {"g1", "g2"} |-> IF k = "g1" THEN ElemList(n) ELSE ElemList(0)])

EnumValues == {Absent} \cup {ElemList(n) : n \in 0..MaxEnum}

ChoicesValues ==
    {Absent, EmptyObj}
        \cup {EntryList(n) : n \in 0..MaxChoices} \cup {Groups(n) : n \in 0..MaxChoices}

\* a nested union, as carried by an untyped alternative or by an array's items
InnerUnion == List(<<Obj([type |-> Str("integer")]), Obj([type |-> Str("null")])>>)

ItemsOf(ty) == IF ty = "array" THEN Obj([anyOf |-> InnerUnion]) ELSE Absent

PropertiesOf(ty) ==
    IF ty = "object" THEN Obj([count |-> Obj([anyOf |-> InnerUnion])]) ELSE Absent

\* Alternatives told apart by their title alone: every type, the null marker,
\* an untyped nested union, an untyped node without anyOf, and a typed node
\* that also carries anyOf.
PlainAlts ==
    {MkObj([type |-> Str(ty), title |-> Str(m), items |-> ItemsOf(ty),
            properties |-> PropertiesOf(ty)]) :
        ty \in PrimitiveTypes \cup {"array", "object", "null"}, m \in {"A", "B"}}
    \cup {MkObj([anyOf |-> a, title |-> Str(m)]) :
        a \in {Absent, InnerUnion}, m \in {"A", "B"}}
    \cup {Obj([type |-> Str("string"), anyOf |-> InnerUnion, title |-> Str(m)]) :
        m \in {"A", "B"}}

PlainParents ==
    {MkObj([title |-> ti, nullable |-> nu]) :
        ti \in {Absent, Str("P")}, nu \in {Absent, Bool("true")}}

SeqsUpTo(S, n) == UNION {[1..m -> S] : m \in 0..n}

\* Alternatives that carry metadata of their own
RichAlts ==
    {MkObj([type |-> Str(ty), title |-> ti, description |-> de, default |-> df,
            enum |-> en, choices |-> ch, items |-> ItemsOf(ty),
            properties |-> PropertiesOf(ty)]) :
        ty \in {"string", "array", "object"},
        ti \in {Absent, Str(""), Str("CT")},
        de \in {Absent, Str(""), Str("CD")},
        df \in {Absent, Null, Num("0"), Bool("false"), Str(""), Str("cd")},
        en \in EnumValues,
        ch \in ChoicesValues}

RichParents ==
    {MkObj([title |-> ti, description |-> de, default |-> df, enum |-> en, choices |-> ch]) :
        ti \in {Absent, Str("PT")},
        de \in {Absent, Str("PD")},
        df \in {Absent, Str("pd")},
        en \in {Absent, List(<<Num("7")>>)},
        ch \in {Absent, List(<<Obj([label |-> Num("9"), value |-> Bool("false")])>>)}}

(***************************************************************************)
(* The calls: extractSchema(schema), the public entry point, and the merge *)
(* step combineSchemas(parentMetadata, schema) on its own.                 *)
(***************************************************************************)
Init ==
    /\ outcome = Pending
    /\ \/ /\ fn = "extractSchema"
          /\ parentMetadata = EmptyObj
          /\ \/ \E pm \in PlainParents, alts \in SeqsUpTo(PlainAlts, MaxAlts) :
                    schema = Spread(pm, Obj([anyOf |-> List(alts)]))
             \/ \E pm \in RichParents, alt \in RichAlts :
                    schema = Spread(pm, Obj([anyOf |-> List(<<alt>>)]))
             \/ \E alt \in RichAlts, nu \in {Absent, Bool("true")} :
                    schema = Spread(alt, MkObj([nullable |-> nu]))
       \/ /\ fn = "combineSchemas"
          /\ parentMetadata \in PlainParents
          /\ schema \in PlainAlts

ExtractSchema ==
    /\ fn = "extractSchema"
    /\ outcome = Pending
    /\ outcome' = extractSchema(schema)
    /\ UNCHANGED <<fn, parentMetadata, schema>>

CombineSchemas ==
    /\ fn = "combineSchemas"
    /\ outcome = Pending
    /\ outcome' = combineSchemas(parentMetadata, schema)
    /\ UNCHANGED <<fn, parentMetadata, schema>>

Next == ExtractSchema \/ CombineSchemas

Spec == Init /\ [][Next]_vars

(***************************************************************************)
(* Vocabulary of the properties.                                           *)
(***************************************************************************)
EmptyUnionError == Throw("No valid non-null schema found in anyOf")

InvalidSchemaShape == Throw("Invalid schema type")

\* extractSchema(schema) has completed
Extracted == fn = "extractSchema" /\ outcome.t # "pending"

\* extractSchema(schema) has returned a result
Returned == fn = "extractSchema" /\ outcome.t = "return"

IsUnion(s) == "anyOf" \in DOMAIN s.v

Alts(s) == s.v["anyOf"].v

TypeIs(a, ty) == "type" \in DOMAIN a.v /\ a.v["type"] = Str(ty)

\* 1 primitive, 2 array, 3 object, 4 anything else (the null marker, untyped)
Rank(a) ==
    IF \E ty \in PrimitiveTypes : TypeIs(a, ty) THEN 1
    ELSE IF TypeIs(a, "array") THEN 2
    ELSE IF TypeIs(a, "object") THEN 3
    ELSE 4

HasConcrete(s) == \E i \in 1..Len(Alts(s)) : Rank(Alts(s)[i]) <= 3

\* the position the precedence rule names: the best kind present, and the
\* first alternative of that kind
IsRepresentative(s, k) ==
    /\ Rank(Alts(s)[k]) <= 3
    /\ \A j \in 1..Len(Alts(s)) : Rank(Alts(s)[j]) >= Rank(Alts(s)[k])
    /\ \A j \in 1..(k - 1) : Rank(Alts(s)[j]) # Rank(Alts(s)[k])

Representative(s) == Alts(s)[CHOOSE k \in 1..Len(Alts(s)) : IsRepresentative(s, k)]

\* a union that extractSchema resolved to a primitive, array or object
Resolved == Returned /\ IsUnion(schema) /\ HasConcrete(schema)

\* a node of the accepted schema subset: a typed node without anyOf, or an
\* untyped union each of whose alternatives is either typed or a nested union
ValidNode(s) ==
    IF IsUnion(s)
    THEN /\ "type" \notin DOMAIN s.v
         /\ \A i \in 1..Len(Alts(s)) :
                ("type" \in DOMAIN Alts(s)[i].v) # ("anyOf" \in DOMAIN Alts(s)[i].v)
    ELSE "type" \in DOMAIN s.v

\* a key of the result; undefined when the result does not define it
Result(k) == Get(outcome.v.schema, k)

\* the string form of a scalar
StringForm(x) == [t |-> "str", v |-> IF x.t = "null" THEN "null" ELSE x.v]

(***************************************************************************)
(* C1.  A union with at least one primitive, array or object alternative   *)
(* resolves from exactly one alternative: the first primitive in list      *)
(* order if there is one, otherwise the first array, otherwise the first   *)
(* object.  The result is the merge of the union's metadata with that      *)
(* alternative, so it has that alternative's type and its title mark.      *)
(***************************************************************************)
C1_Precedence ==
    (Extracted /\ IsUnion(schema) /\ HasConcrete(schema)) =>
        /\ outcome.t = "return"
        /\ \E k \in 1..Len(Alts(schema)) :
            /\ IsRepresentative(schema, k)
            /\ \A j \in 1..Len(Alts(schema)) : IsRepresentative(schema, j) => j = k
            /\ Return(outcome.v.schema) =
                    combineSchemas(ParentMetadata(schema), TypedSelectedSchema(Alts(schema)[k]))
            /\ Result("type") = Alts(schema)[k].v["type"]
            /\ Get(Alts(schema)[k], "title") \in {Str("A"), Str("B")} =>
                    Result("title") = Get(Alts(schema)[k], "title")

\* an object listed before a string: the string is chosen
C1_Witness ==
    /\ Returned /\ IsUnion(schema) /\ Len(Alts(schema)) >= 2
    /\ TypeIs(Alts(schema)[1], "object")
    /\ TypeIs(Alts(schema)[2], "string")
    /\ Alts(schema)[1].v["title"] # Alts(schema)[2].v["title"]
    /\ Result("type") = Str("string")
    /\ Result("title") = Alts(schema)[2].v["title"]

(***************************************************************************)
(* C2.  Whenever extractSchema returns a result, isNullable is true        *)
(* exactly when the input is a union whose anyOf list has an alternative   *)
(* of type "null"; it is false for every other node, a nullable: true flag *)
(* notwithstanding.                                                        *)
(***************************************************************************)
C2_Nullable ==
    Returned =>
        (outcome.v.isNullable <=>
            (IsUnion(schema) /\ \E i \in 1..Len(Alts(schema)) : TypeIs(Alts(schema)[i], "null")))

\* a union flagged nullable: true, with an untyped alternative and no null
\* marker, is not nullable
C2_Witness ==
    /\ Returned /\ IsUnion(schema)
    /\ Get(schema, "nullable") = Bool("true")
    /\ \E i \in 1..Len(Alts(schema)) : "type" \notin DOMAIN Alts(schema)[i].v
    /\ ~outcome.v.isNullable

(***************************************************************************)
(* C3.  A union whose anyOf list is empty or holds only type-"null"        *)
(* alternatives makes extractSchema fail with the empty-union error; no    *)
(* result is returned.                                                     *)
(***************************************************************************)
C3_EmptyUnionFails ==
    (Extracted /\ IsUnion(schema)
        /\ \A i \in 1..Len(Alts(schema)) : TypeIs(Alts(schema)[i], "null")) =>
        outcome = EmptyUnionError

\* a union of null markers only has failed
C3_Witness ==
    /\ Extracted /\ IsUnion(schema) /\ Len(Alts(schema)) >= 1
    /\ \A i \in 1..Len(Alts(schema)) : TypeIs(Alts(schema)[i], "null")
    /\ outcome = EmptyUnionError

(***************************************************************************)
(* C4.  A union with at least one alternative that is not a type-"null"    *)
(* alternative (untyped alternatives such as nested unions included) does  *)
(* not fail with the empty-union error; when none of these alternatives is *)
(* primitive, array or object, the first of them in list order is the one  *)
(* merged with the union's metadata.                                       *)
(***************************************************************************)
FirstNotNull(s) ==
    Alts(s)[CHOOSE k \in 1..Len(Alts(s)) :
                /\ ~TypeIs(Alts(s)[k], "null")
                /\ \A j \in 1..(k - 1) : TypeIs(Alts(s)[j], "null")]

C4_NonNullNeverEmpty ==
    (Extracted /\ IsUnion(schema) /\ ValidNode(schema)
        /\ \E i \in 1..Len(Alts(schema)) : ~TypeIs(Alts(schema)[i], "null")) =>
        /\ outcome # EmptyUnionError
        /\ (~HasConcrete(schema) /\ outcome.t = "return") =>
                Return(outcome.v.schema) =
                    combineSchemas(ParentMetadata(schema), TypedSelectedSchema(FirstNotNull(schema)))

(***************************************************************************)
(* C5.  Union elimination: for every valid input node (a typed node        *)
(* without anyOf, or a union whose alternatives are typed nodes or nested  *)
(* unions) on which extractSchema returns a result, the returned schema    *)
(* has no anyOf key at its top level and is a primitive, array or object   *)
(* node.                                                                   *)
(***************************************************************************)
C5_UnionElimination ==
    (Returned /\ ValidNode(schema)) =>
        /\ "anyOf" \notin DOMAIN outcome.v.schema.v
        /\ Result("type").t = "str"
        /\ Result("type").v \in PrimitiveTypes \cup {"array", "object"}

\* a union holding a nested union and a concrete alternative was resolved
C5_Witness ==
    /\ Returned /\ IsUnion(schema) /\ ValidNode(schema)
    /\ \E i \in 1..Len(Alts(schema)) : IsUnion(Alts(schema)[i])
    /\ "anyOf" \notin DOMAIN outcome.v.schema.v

(***************************************************************************)
(* C6.  Pass-through identity: for every node without an anyOf field       *)
(* extractSchema does not fail and returns exactly the input node as       *)
(* schema, no field changed and none added, with isNullable = false.       *)
(***************************************************************************)
C6_PassThrough ==
    (Extracted /\ ~IsUnion(schema)) =>
        outcome = Return([schema |-> schema, isNullable |-> FALSE])

\* an array node without enum or title, flagged nullable: true, came back
C6_Witness ==
    /\ Extracted /\ ~IsUnion(schema)
    /\ TypeIs(schema, "array")
    /\ DOMAIN schema.v = {"type", "items", "nullable"}
    /\ outcome.t = "return"
    /\ outcome.v.schema = schema

(***************************************************************************)
(* C7.  Title/description inheritance as first stated, where both sides    *)
(* carry the field: for every resolved union that has a title of its own,  *)
(* the result's title is the selected alternative's title whenever that    *)
(* alternative has a title, whatever string it holds; likewise for         *)
(* description.                                                            *)
(***************************************************************************)
ChildWins(k) ==
    (k \in DOMAIN Representative(schema).v /\ k \in DOMAIN schema.v) =>
        Result(k) = Representative(schema).v[k]

C7_PresentChildTextWins == Resolved => (ChildWins("title") /\ ChildWins("description"))

(***************************************************************************)
(* C7, amended.  For every resolved union the result's title is the        *)
(* selected alternative's title whenever that alternative has a non-empty  *)
(* title, and the union's title otherwise (also when the alternative's     *)
(* title is the empty string); the result has no title when neither gives  *)
(* one.  The same rule holds independently for description.                *)
(***************************************************************************)
NonEmptyElse(k) ==
    IF k \in DOMAIN Representative(schema).v /\ Representative(schema).v[k] # Str("")
    THEN Representative(schema).v[k]
    ELSE Get(schema, k)

C7_NonEmptyChildTextWins ==
    Resolved =>
        /\ Result("title") = NonEmptyElse("title")
        /\ Result("description") = NonEmptyElse("description")

\* an empty child title gave way to the union's title while the child's own
\* description was kept
C7_Witness ==
    /\ Resolved
    /\ Get(Representative(schema), "title") = Str("")
    /\ Get(Representative(schema), "description") = Str("CD")
    /\ Get(schema, "title") = Str("PT")
    /\ Get(schema, "description") = Str("PD")
    /\ Result("title") = Str("PT")
    /\ Result("description") = Str("CD")

(***************************************************************************)
(* C8.  Default inheritance as first stated: for every resolved union the  *)
(* result's default is the selected alternative's default whenever that    *)
(* alternative defines one; a child default always wins over a union       *)
(* default.                                                                *)
(***************************************************************************)
C8_DefinedChildDefaultWins == Resolved => ChildWins("default")

(***************************************************************************)
(* C8, amended.  For every resolved union the result's default is the      *)
(* selected alternative's default whenever that alternative defines one    *)
(* other than null, the falsy values 0, false and "" included, and the     *)
(* union's default when the alternative defines none or defines null.      *)
(***************************************************************************)
C8_NonNullChildDefaultWins ==
    Resolved =>
        Result("default") =
            IF "default" \in DOMAIN Representative(schema).v
                /\ Representative(schema).v["default"] # Null
            THEN Representative(schema).v["default"]
            ELSE Get(schema, "default")

\* a child default of 0 won over the union's default
C8_Witness ==
    /\ Resolved
    /\ Get(Representative(schema), "default") = Num("0")
    /\ Get(schema, "default") = Str("pd")
    /\ Result("default") = Num("0")

(***************************************************************************)
(* C9.  Choices of a selected primitive alternative: the result's choices  *)
(* come from the alternative's choices if it has them, else from the       *)
(* union's, else are absent.  In list form the result has one {label,      *)
(* value} entry per source entry, in the same order, both converted to     *)
(* strings; in grouped form it has the same group names, each mapped to    *)
(* its values in the same order, each converted to a string.               *)
(***************************************************************************)
ChoicesSource ==
    IF "choices" \in DOMAIN Representative(schema).v
    THEN Representative(schema).v["choices"]
    ELSE Get(schema, "choices")

IsNormalized(out, src) ==
    CASE src.t = "list" ->
            /\ out.t = "list"
            /\ Len(out.v) = Len(src.v)
            /\ \A i \in 1..Len(src.v) :
                /\ out.v[i].t = "obj"
                /\ DOMAIN out.v[i].v = {"label", "value"}
                /\ out.v[i].v["label"] = StringForm(src.v[i].v["label"])
                /\ out.v[i].v["value"] = StringForm(src.v[i].v["value"])
      [] src.t = "obj" ->
            /\ out.t = "obj"
            /\ DOMAIN out.v = DOMAIN src.v
            /\ \A g \in DOMAIN src.v :
                /\ out.v[g].t = "list"
                /\ Len(out.v[g].v) = Len(src.v[g].v)
                /\ \A i \in 1..Len(src.v[g].v) : out.v[g].v[i] = StringForm(src.v[g].v[i])
      [] OTHER -> out = Undefined

C9_WitnessEmpty ==
    /\ Resolved /\ Rank(Representative(schema)) = 1
    /\ Get(Representative(schema), "choices") = List(<<>>)
    /\ "choices" \in DOMAIN schema.v
    /\ Result("choices") = List(<<>>)

C10_EnumCoerced ==
    (Resolved /\ Rank(Representative(schema)) = 1) =>
        IF "enum" \in DOMAIN Representative(schema).v
        THEN /\ Result("enum").t = "list"
             /\ Len(Result("enum").v) = Len(Representative(schema).v["enum"].v)
             /\ \A i \in 1..Len(Result("enum").v) :
                    Result("enum").v[i] = StringForm(Representative(schema).v["enum"].v[i])
        ELSE Result("enum") = Undefined

(***************************************************************************)
(* C11.  Array/object shallow merge as first stated: when the selected     *)
(* alternative is an array or object, the result has every field of the    *)
(* selected alternative with the alternative's value (items and properties *)
(* unchanged, nested unions unresolved), plus every field of the union     *)
(* other than anyOf that the alternative does not carry, the union's       *)
(* choices or enum for instance; on a key collision the child's value is   *)
(* used.                                                                   *)
(***************************************************************************)
Structural == Resolved /\ Rank(Representative(schema)) \in {2, 3}

C11_ShallowMerge ==
    Structural =>
        /\ \A k \in DOMAIN Representative(schema).v : Result(k) = Representative(schema).v[k]
        /\ \A k \in DOMAIN schema.v \ (DOMAIN Representative(schema).v \cup {"anyOf"}) :
                Result(k) = schema.v[k]

(***************************************************************************)
(* C11, amended.  When the selected alternative is an array or object, the *)
(* result has every field of the selected alternative with the             *)
(* alternative's value (items and properties unchanged, nested unions      *)
(* unresolved), except that an empty-string title or description and a     *)
(* null default give way to the union's value; plus every field of the     *)
(* union other than anyOf and enum that the alternative does not carry.    *)
(* The result's enum is the alternative's own enum or absent, never the    *)
(* union's.  On every other key collision the child's value is used, and   *)
(* the result defines no further field.                                    *)
(***************************************************************************)
MergedField(k) ==
    CASE k \in {"title", "description"} -> NonEmptyElse(k)
      [] k = "default" ->
            IF "default" \in DOMAIN Representative(schema).v
                /\ Representative(schema).v["default"] # Null
            THEN Representative(schema).v["default"]
            ELSE Get(schema, "default")
      [] k = "enum" -> Get(Representative(schema), "enum")
      [] k = "anyOf" -> Undefined
      [] k \in DOMAIN Representative(schema).v -> Representative(schema).v[k]
      [] OTHER -> Get(schema, k)

C11_ShallowMergeBut ==
    Structural =>
        \A k \in DOMAIN outcome.v.schema.v \cup DOMAIN Representative(schema).v
                    \cup DOMAIN schema.v :
            Result(k) = MergedField(k)

\* an array alternative without choices or enum, under a union that has
\* both: items came through with its nested union, the union's choices were
\* taken over and its enum was not
C11_Witness ==
    /\ Structural
    /\ TypeIs(Representative(schema), "array")
    /\ IsUnion(Representative(schema).v["items"])
    /\ DOMAIN Representative(schema).v \cap {"choices", "enum"} = {}
    /\ {"choices", "enum"} \subseteq DOMAIN schema.v
    /\ Result("items") = Representative(schema).v["items"]
    /\ Result("choices") = schema.v["choices"]
    /\ Result("enum") = Undefined

(***************************************************************************)
(* C12.  The merge step combineSchemas(parentMetadata, selectedSchema)     *)
(* fails with the invalid-shape error exactly when selectedSchema has      *)
(* neither a type nor an anyOf field, and for a selected schema without    *)
(* type that carries anyOf it returns the plain shallow merge of           *)
(* parentMetadata then selectedSchema.                                     *)
(***************************************************************************)
Combined == fn = "combineSchemas" /\ outcome.t # "pending"

Shapeless(s) == "type" \notin DOMAIN s.v /\ "anyOf" \notin DOMAIN s.v

C12_CombineShape ==
    Combined =>
        /\ (outcome = InvalidSchemaShape) <=> Shapeless(schema)
        /\ (outcome.t = "throw") => (outcome = InvalidSchemaShape)
        /\ ("type" \notin DOMAIN schema.v /\ "anyOf" \in DOMAIN schema.v) =>
                /\ outcome.t = "return"
                /\ DOMAIN outcome.v.v = DOMAIN parentMetadata.v \cup DOMAIN schema.v
                /\ \A k \in DOMAIN outcome.v.v :
                        outcome.v.v[k] =
                            IF k \in DOMAIN schema.v THEN schema.v[k] ELSE parentMetadata.v[k]

(***************************************************************************)
(* C12, in full: the above, and a union whose selected representative      *)
(* (none of its alternatives being primitive, array or object, the first   *)
(* alternative that is not a null marker) has neither a type nor an anyOf  *)
(* field makes extractSchema fail with the invalid-shape error.            *)
(***************************************************************************)
C12_InvalidShape ==
    /\ C12_CombineShape
    /\ (Extracted /\ IsUnion(schema) /\ ~HasConcrete(schema)
            /\ (\E i \in 1..Len(Alts(schema)) : ~TypeIs(Alts(schema)[i], "null"))
            /\ Shapeless(FirstNotNull(schema))) =>
        outcome = InvalidSchemaShape

====
